---- MODULE Spec2Model ----
(***************************************************************************)
(* Model of validation/apply-field-changes.py: main() reads the parser     *)
(* file, applies three literal str.replace substitutions (the third one    *)
(* splices the content of field-classifier-insert.txt), writes the parser  *)
(* file back in place and prints a success message.                        *)
(*                                                                         *)
(* Texts are sequences of tokens.  A token stands for a stretch of the     *)
(* real text that the three literals share or differ in:                   *)
(*   EH  "export type ComponentType =\n  | 'Button'\n  | 'Input'\n"        *)
(*   FD  "  | 'Field'\n"                                                   *)
(*   CD  "  | 'Card'"                                                      *)
(*   CA  "    const classifiers = [ ... this.classifyTextarea,\n"          *)
(*   CF  "      this.classifyField,\n"                                     *)
(*   CB  "      this.classifyCheckbox, ... this.classifyForm,"             *)
(*   M   the classifyImage method, "  static classifyImage(" ... "\n  }"   *)
(*   NL  "\n"                                                              *)
(*   RB  "}"                                                               *)
(*   X   any other text                                                    *)
(***************************************************************************)
EXTENDS Integers, Sequences, FiniteSets, TLC

\* ---- bounds of the model ----
MaxTargetPieces == 3
MaxInsertPieces == 1
MaxRuns == 2
BufferSize == 2

\* ---- literals of main() ----
parser_file == "enhanced-figma-parser.ts"
insert_file == "field-classifier-insert.txt"

old_enum == <<"EH", "CD">>

new_enum_appended == <<"EH", "CD", "FD">>
new_enum == <<"EH", "FD", "CD">>

old_classifiers == <<"CA", "CB">>
new_classifiers == <<"CA", "CF", "CB">>

insert_marker == <<"M", "NL", "RB">>
replacement(classifier_code) == <<"M", "NL", "NL">> \o classifier_code \o <<"NL", "RB">>

\* ---- str.replace / str.count ----
StartsWith(s, p) == Len(s) >= Len(p) /\ SubSeq(s, 1, Len(p)) = p

Drop(s, n) == SubSeq(s, n + 1, Len(s))

RECURSIVE ReplaceFirst(_, _, _)
ReplaceFirst(s, old, new) ==
    IF Len(s) < Len(old) \/ old = <<>> THEN s
    ELSE IF StartsWith(s, old) THEN new \o Drop(s, Len(old))
    ELSE <<Head(s)>> \o ReplaceFirst(Tail(s), old, new)

RECURSIVE Replace(_, _, _)
Replace(s, old, new) ==
    IF Len(s) < Len(old) \/ old = <<>> THEN s
    ELSE IF StartsWith(s, old) THEN new \o Replace(Drop(s, Len(old)), old, new)
    ELSE <<Head(s)>> \o Replace(Tail(s), old, new)

\* number of non-overlapping occurrences, scanning left to right
RECURSIVE Count(_, _)
Count(old, s) ==
    IF Len(s) < Len(old) \/ old = <<>> THEN 0
    ELSE IF StartsWith(s, old) THEN 1 + Count(old, Drop(s, Len(old)))
    ELSE Count(old, Tail(s))

Contains(s, p) == Count(p, s) > 0

IsPrefix(p, s) == Len(p) <= Len(s) /\ SubSeq(s, 1, Len(p)) = p

\* ---- the texts the two files can hold ----
TargetPieces == {old_enum, old_classifiers, insert_marker, new_enum, <<"X">>}
InsertPieces == {old_enum, new_classifiers, <<"M">>, <<"X">>}

RECURSIVE Concats(_, _)
Concats(pieces, n) ==
    IF n = 0 THEN {<<>>}
    ELSE LET shorter == Concats(pieces, n - 1)
         IN  shorter \cup {p \o t : p \in pieces, t \in shorter}

TargetTexts == Concats(TargetPieces, MaxTargetPieces)
InsertTexts == Concats(InsertPieces, MaxInsertPieces)

Missing == [exists |-> FALSE, data |-> <<>>]
File(text) == [exists |-> TRUE, data |-> text]

VARIABLES
    fs,               \* the two files on disk: path -> [exists, data]
    writable,         \* whether parser_file may be opened for writing
    pc,               \* position of main()
    status,           \* "running", "done", "failed" or "crashed"
    error,            \* the exception that ended the run, "" if none
    content,          \* local variable content
    classifier_code,  \* local variable classifier_code
    stdout,           \* number of success messages printed
    run,              \* number of the current invocation of the script
    before,           \* before[r]: parser_file's content when run r started
    log,              \* the steps the current run has completed, in order
    observed          \* what a file watcher read from parser_file, if it did

vars == <<fs, writable, pc, status, error, content, classifier_code, stdout,
          run, before, log, observed>>

NotObserved == [seen |-> FALSE, data |-> <<>>]

Init ==
    /\ \E target \in {Missing} \cup {File(t) : t \in TargetTexts},
          insert \in {Missing} \cup {File(t) : t \in InsertTexts} :
            fs = (parser_file :> target) @@ (insert_file :> insert)
    /\ writable \in BOOLEAN
    /\ pc = "read_target"
    /\ status = "running"
    /\ error = ""
    /\ content = <<>>
    /\ classifier_code = <<>>
    /\ stdout = 0
    /\ run = 1
    /\ before = <<fs[parser_file].data>>
    /\ log = <<>>
    /\ observed = NotObserved

Raise(e) ==
    /\ status' = "failed"
    /\ error' = e
    /\ UNCHANGED <<fs, writable, pc, content, classifier_code, stdout, run, before,
                   log, observed>>

\* main() with both reads ahead of the substitutions
StatedSuccessor(p) ==
    CASE p = "read_target" -> "read_insert"
      [] p = "read_insert" -> "sub1"
      [] p = "sub1" -> "sub2"
      [] p = "sub2" -> "sub3"
      [] p = "sub3" -> "open_w"
      [] p = "open_w" -> "write"
      [] p = "write" -> "close"
      [] p = "close" -> "print"
      [] OTHER -> "end"

\* the statement that follows statement p in main()
Successor(p) ==
    CASE p = "read_target" -> "sub1"
      [] p = "sub1" -> "sub2"
      [] p = "sub2" -> "read_insert"
      [] p = "read_insert" -> "sub3"
      [] p = "sub3" -> "open_w"
      [] p = "open_w" -> "write"
      [] p = "write" -> "close"
      [] p = "close" -> "print"
      [] OTHER -> "end"

Step(name) ==
    /\ pc' = Successor(name)
    /\ log' = Append(log, name)
    /\ UNCHANGED <<writable, status, error, stdout, run, before, observed>>

\* with open(parser_file, 'r') as f: content = f.read()
ReadTarget ==
    /\ status = "running" /\ pc = "read_target"
    /\ IF fs[parser_file].exists
       THEN /\ content' = fs[parser_file].data
            /\ Step("read_target")
            /\ UNCHANGED <<fs, classifier_code>>
       ELSE Raise("FileNotFoundError")

\* Sub1 as str.index would behave: an absent literal raises
Sub1_Strict ==
    /\ status = "running" /\ pc = "sub1"
    /\ IF Count(old_enum, content) = 0
       THEN Raise("ValueError")
       ELSE /\ content' = Replace(content, old_enum, new_enum)
            /\ Step("sub1")
            /\ UNCHANGED <<fs, classifier_code>>

\* content = content.replace(old_enum, new_enum)
Sub1 ==
    /\ status = "running" /\ pc = "sub1"
    /\ content' = Replace(content, old_enum, new_enum)
    /\ Step("sub1")
    /\ UNCHANGED <<fs, classifier_code>>

\* Sub2 with the result of the replacement dropped
Sub2_Skipped ==
    /\ status = "running" /\ pc = "sub2"
    /\ content' = content
    /\ Step("sub2")
    /\ UNCHANGED <<fs, classifier_code>>

\* content = content.replace(old_classifiers, new_classifiers)
Sub2 ==
    /\ status = "running" /\ pc = "sub2"
    /\ content' = Replace(content, old_classifiers, new_classifiers)
    /\ Step("sub2")
    /\ UNCHANGED <<fs, classifier_code>>

\* ReadInsert with the error swallowed: a missing insert file reads as empty
ReadInsert_Caught ==
    /\ status = "running" /\ pc = "read_insert"
    /\ classifier_code' = IF fs[insert_file].exists THEN fs[insert_file].data ELSE <<>>
    /\ Step("read_insert")
    /\ UNCHANGED <<fs, content>>

\* ReadInsert with parser_file already opened for writing around it
ReadInsert_TargetOpen ==
    /\ status = "running" /\ pc = "read_insert"
    /\ fs' = [fs EXCEPT ![parser_file] = File(<<>>)]
    /\ IF fs[insert_file].exists
       THEN /\ classifier_code' = fs[insert_file].data
            /\ Step("read_insert")
            /\ UNCHANGED content
       ELSE /\ status' = "failed"
            /\ error' = "FileNotFoundError"
            /\ UNCHANGED <<writable, pc, content, classifier_code, stdout, run,
                           before, log, observed>>

\* with open('field-classifier-insert.txt', 'r') as f: classifier_code = f.read()
ReadInsert ==
    /\ status = "running" /\ pc = "read_insert"
    /\ IF fs[insert_file].exists
       THEN /\ classifier_code' = fs[insert_file].data
            /\ Step("read_insert")
            /\ UNCHANGED <<fs, content>>
       ELSE Raise("FileNotFoundError")

\* Sub3 run before the enum substitution, which then rewrites the spliced text
Sub3_ThenEnum ==
    /\ status = "running" /\ pc = "sub3"
    /\ content' = Replace(Replace(content, insert_marker, replacement(classifier_code)),
                          old_enum, new_enum)
    /\ Step("sub3")
    /\ UNCHANGED <<fs, classifier_code>>

\* content = content.replace(insert_marker, replacement)
Sub3 ==
    /\ status = "running" /\ pc = "sub3"
    /\ content' = Replace(content, insert_marker, replacement(classifier_code))
    /\ Step("sub3")
    /\ UNCHANGED <<fs, classifier_code>>

\* OpenForWrite on a temporary file: parser_file keeps its content until the close
OpenForWrite_Temporary ==
    /\ status = "running" /\ pc = "open_w"
    /\ IF writable
       THEN /\ Step("open_w")
            /\ UNCHANGED <<fs, content, classifier_code>>
       ELSE Raise("PermissionError")

\* open(parser_file, 'w'): truncates the file, or raises when it may not be written
OpenForWrite ==
    /\ status = "running" /\ pc = "open_w"
    /\ IF writable
       THEN /\ fs' = [fs EXCEPT ![parser_file] = File(<<>>)]
            /\ Step("open_w")
            /\ UNCHANGED <<content, classifier_code>>
       ELSE Raise("PermissionError")

\* f.write(content): text beyond the buffer reaches the file before the close
Write ==
    /\ status = "running" /\ pc = "write"
    /\ fs' = IF Len(content) > BufferSize
             THEN [fs EXCEPT ![parser_file] = File(SubSeq(content, 1, BufferSize))]
             ELSE fs
    /\ Step("write")
    /\ UNCHANGED <<content, classifier_code>>

\* leaving the with block flushes the rest and closes the file
Close ==
    /\ status = "running" /\ pc = "close"
    /\ fs' = [fs EXCEPT ![parser_file] = File(content)]
    /\ Step("close")
    /\ UNCHANGED <<content, classifier_code>>

\* print("... Applied Field changes to enhanced-figma-parser.ts"); main() returns
PrintSuccess ==
    /\ status = "running" /\ pc = "print"
    /\ stdout' = stdout + 1
    /\ status' = "done"
    /\ pc' = Successor("print")
    /\ log' = Append(log, "print")
    /\ UNCHANGED <<fs, writable, error, content, classifier_code, run, before, observed>>

\* the process is killed at any point of a run
Crash ==
    /\ status = "running"
    /\ status' = "crashed"
    /\ UNCHANGED <<fs, writable, pc, error, content, classifier_code, stdout, run,
                   before, log, observed>>

\* a file watcher reads parser_file while main() runs
WatcherRead ==
    /\ status = "running"
    /\ fs[parser_file].exists
    /\ ~observed.seen
    /\ observed' = [seen |-> TRUE, data |-> fs[parser_file].data]
    /\ UNCHANGED <<fs, writable, pc, status, error, content, classifier_code, stdout,
                   run, before, log>>

\* the script is invoked again after a successful run: if __name__ == '__main__': main()
Rerun ==
    /\ status = "done"
    /\ run < MaxRuns
    /\ run' = run + 1
    /\ before' = Append(before, fs[parser_file].data)
    /\ pc' = "read_target"
    /\ status' = "running"
    /\ content' = <<>>
    /\ classifier_code' = <<>>
    /\ log' = <<>>
    /\ observed' = NotObserved
    /\ UNCHANGED <<fs, writable, error, stdout>>

Next ==
    \/ ReadTarget
    \/ Sub1
    \/ Sub2
    \/ ReadInsert
    \/ Sub3
    \/ OpenForWrite
    \/ Write
    \/ Close
    \/ PrintSuccess
    \/ Crash
    \/ WatcherRead
    \/ Rerun

Spec == Init /\ [][Next]_vars

\* ---- the transformation of one whole run, and the texts the claims speak of ----
Apply(text, code) ==
    Replace(Replace(Replace(text, old_enum, new_enum), old_classifiers, new_classifiers),
            insert_marker, replacement(code))

written == fs[parser_file].data
insert_text == fs[insert_file].data
Block == replacement(insert_text)
OldLiterals == {old_enum, old_classifiers, insert_marker}
Steps(l) == {l[i] : i \in DOMAIN l}
FinishedRun(r) == status = "done" /\ run = r
ActualOrder ==
    <<"read_target", "sub1", "sub2", "read_insert", "sub3", "open_w", "write", "close",
      "print">>
StatedOrder ==
    <<"read_target", "read_insert", "sub1", "sub2", "sub3", "open_w", "write", "close",
      "print">>

\* the replacement block carries no old literal into the patched text
CleanBlock == \A old \in OldLiterals : ~Contains(Block, old)

\* C1 as stated: for every target text and every insert text a second successful run
\* leaves the file as the first run wrote it.
C1_SecondRunNoOp == FinishedRun(2) => written = before[2]

\* C1 amended: whenever the replacement block built from the insert text contains
\* none of the three old literals, a second successful run leaves the file as the
\* first run wrote it.
C1_SecondRunNoOpCleanInsert == (FinishedRun(2) /\ CleanBlock) => written = before[2]

C1_Witness ==
    /\ FinishedRun(2) /\ CleanBlock
    /\ \A old \in OldLiterals : Contains(before[1], old)
    /\ before[2] # before[1]
    /\ written = before[2]

\* C2 as stated: a target holding each old literal exactly once ends, for every insert
\* text, with each new literal exactly once and no old literal.
C2_ExactlyOnce ==
    (FinishedRun(1) /\ \A old \in OldLiterals : Count(old, before[1]) = 1)
        => /\ Count(new_enum, written) = 1
           /\ Count(new_classifiers, written) = 1
           /\ Count(Block, written) = 1
           /\ \A old \in OldLiterals : Count(old, written) = 0

\* the target holds no new literal yet, and the insert text holds neither an enum or
\* classifiers literal (old or new) nor the classifyImage method text
C2_Fresh ==
    /\ \A new \in {new_enum, new_classifiers, Block} : ~Contains(before[1], new)
    /\ \A lit \in {old_enum, old_classifiers, new_enum, new_classifiers, <<"M">>} :
          ~Contains(insert_text, lit)

\* C2 amended: a target holding each old literal exactly once and no new literal,
\* patched with an insert text that holds none of the enum and classifiers literals
\* (old or new) and not the classifyImage method text, ends with each new literal
\* exactly once and no old literal.
C2_ExactlyOnceFresh ==
    (FinishedRun(1) /\ C2_Fresh /\ \A old \in OldLiterals : Count(old, before[1]) = 1)
        => /\ Count(new_enum, written) = 1
           /\ Count(new_classifiers, written) = 1
           /\ Count(Block, written) = 1
           /\ \A old \in OldLiterals : Count(old, written) = 0

C2_Witness ==
    /\ FinishedRun(1) /\ C2_Fresh
    /\ \A old \in OldLiterals : Count(old, before[1]) = 1
    /\ insert_text # <<>>
    /\ Count(Block, written) = 1

\* C3: whatever a file watcher reads from parser_file during a run is either the
\* complete original content or the complete patched content.
C3_WatcherSeesWholeFile ==
    observed.seen =>
        \/ observed.data = before[run]
        \/ observed.data = Apply(before[run], insert_text)

\* C4: a substitution whose old literal is absent leaves the text as it is and raises
\* nothing, and a target without any old literal ends a successful run with its original
\* content and the success message printed.
C4_AbsentLiteralIsNoOp ==
    /\ [](( /\ FinishedRun(1)
            /\ \A old \in OldLiterals : ~Contains(before[1], old))
          => (written = before[1] /\ stdout = 1))
    /\ [][ /\ (status = "running" /\ pc = "sub1" /\ ~Contains(content, old_enum))
                => (status' # "failed" /\ content' = content)
           /\ (status = "running" /\ pc = "sub2" /\ ~Contains(content, old_classifiers))
                => (status' # "failed" /\ content' = content)
           /\ (status = "running" /\ pc = "sub3" /\ ~Contains(content, insert_marker))
                => (status' # "failed" /\ content' = content) ]_vars

C4_Witness ==
    /\ FinishedRun(1)
    /\ \A old \in OldLiterals : ~Contains(before[1], old)
    /\ before[1] # <<>>
    /\ written = before[1]
    /\ stdout = 1

\* C5: with the target file or the insert file missing, or the target not writable, the
\* run never gets past the open that fails, ends with that file error uncaught and never
\* prints the success message.
C5_FileErrorsEndTheRun ==
    /\ ~fs[parser_file].exists => (pc = "read_target" /\ stdout = 0 /\ status # "done")
    /\ ~fs[insert_file].exists =>
          /\ pc \in {"read_target", "sub1", "sub2", "read_insert"}
          /\ stdout = 0 /\ status # "done"
    /\ ~writable =>
          /\ pc \in {"read_target", "sub1", "sub2", "read_insert", "sub3", "open_w"}
          /\ stdout = 0 /\ status # "done"
    /\ status = "failed" =>
          \/ pc = "read_target" /\ ~fs[parser_file].exists /\ error = "FileNotFoundError"
          \/ pc = "read_insert" /\ ~fs[insert_file].exists /\ error = "FileNotFoundError"
          \/ pc = "open_w" /\ ~writable /\ error = "PermissionError"

C5_Witness ==
    /\ status = "failed" /\ error = "FileNotFoundError" /\ pc = "read_insert"
    /\ fs[parser_file].exists /\ written # <<>>
    /\ stdout = 0

C7_InsertSplicedVerbatim ==
    FinishedRun(1) =>
        /\ Count(Block, written) >= Count(insert_marker, before[1])
        /\ Len(written) = Len(before[1])
                          + Count(old_enum, before[1])
                          + Count(old_classifiers, before[1])
                          + Count(insert_marker, before[1]) * (Len(insert_text) + 2)

C7_Witness ==
    /\ FinishedRun(1)
    /\ Contains(before[1], insert_marker)
    /\ Contains(before[1], old_enum)
    /\ Contains(insert_text, old_enum)
    /\ Contains(written, Block)

\* C8 as stated: the steps of a run happen in the order read target, read insert,
\* substitutions 1, 2, 3, write, print.
C8_StatedOrder == IsPrefix(log, StatedOrder)

\* C8 amended: the steps of a run happen in the order read target, substitution 1,
\* substitution 2, read insert, substitution 3, write (open, write, close), print; the
\* insert file is read before substitution 3 only.
C8_ActualOrder == IsPrefix(log, ActualOrder)

C8_Witness == FinishedRun(1) /\ log = ActualOrder /\ written # before[1]

\* C9: a failed read leaves parser_file as the run found it, parser_file changes only
\* after both reads and all three substitutions, and the insert file never changes.
C9_FailedReadLeavesTarget ==
    /\ []((status = "failed" /\ error = "FileNotFoundError")
             => (fs[parser_file].exists => written = before[run]))
    /\ [][ /\ fs'[insert_file] = fs[insert_file]
           /\ fs'[parser_file] # fs[parser_file]
                => {"read_target", "sub1", "sub2", "read_insert", "sub3"} \subseteq Steps(log)
         ]_vars

C9_Witness ==
    /\ status = "failed" /\ error = "FileNotFoundError" /\ pc = "read_insert"
    /\ content # before[run]
    /\ written = before[run]

\* C10: each substitution rewrites every occurrence of its old literal: a text holding
\* the old literal k times holds k more (for the splice: at least k) new literals after
\* the step, and no old enum or classifiers literal.
C10_EveryOccurrenceReplaced ==
    [][ /\ (pc = "sub1" /\ pc' = "sub2")
             => /\ Count(new_enum, content')
                     = Count(new_enum, content) + Count(old_enum, content)
                /\ Count(old_enum, content') = 0
        /\ (pc = "sub2" /\ pc' = "read_insert")
             => /\ Count(new_classifiers, content')
                     = Count(new_classifiers, content) + Count(old_classifiers, content)
                /\ Count(old_classifiers, content') = 0
        /\ (pc = "sub3" /\ pc' = "open_w")
             => Count(replacement(classifier_code), content')
                     >= Count(insert_marker, content) ]_vars

C10_Witness ==
    /\ FinishedRun(1)
    /\ Count(insert_marker, before[1]) >= 2
    /\ Count(Block, written) >= 2
    /\ insert_text # <<>>

====
